---- MODULE Spec2Model ----
(***************************************************************************)
(* The database models of app/models.py (Flask-SQLAlchemy): the tables     *)
(* user, deck, card and class, the association tables UserClasses and      *)
(* CardClasses, and what a unit of work of the ORM session writes to them  *)
(* when an object is constructed and committed, a field is assigned, a     *)
(* collection is changed or an object is deleted.                          *)
(*                                                                         *)
(* A table with a primary key is a function from the stored ids to rows;   *)
(* an association table has no key at all and is a bag of rows.  Every     *)
(* action is one committed or rolled-back unit of work; `last` holds the   *)
(* call and what it returned or raised.                                    *)
(***************************************************************************)
EXTENDS Integers, FiniteSets, Bags, TLC

\* ---------------------------------------------------------------- bounds
MaxUsers == 2
MaxDecks == 2
MaxCards == 2
MaxClasses == 2
MaxEmail == 2
MaxName == 3
MaxPassword == 2
MaxSalt == 2
MaxRows == 2

Emails == 1..MaxEmail
Names == 1..MaxName
Passwords == 1..MaxPassword
Salts == 1..MaxSalt

\* The value of a nullable column that holds nothing (ids start at 1).
NULL == 0

VARIABLES user, deck, card, class, assoc, autoinc, last

vars == <<user, deck, card, class, assoc, autoinc, last>>
store == <<user, deck, card, class, assoc>>

\* ------------------------------------------------- werkzeug.security
\* The digest of a password under a salt: deterministic, and different for
\* different passwords under the same salt.
HashInternal(salt, password) == (salt * 17 + password * 7) % 101

\* generate_password_hash: "method$salt$digest" with a fresh salt.
generate_password_hash(password, salt) ==
    [salt |-> salt, digest |-> HashInternal(salt, password)]

\* check_password_hash: recompute the digest under the stored salt.
check_password_hash(pwhash, password) ==
    HashInternal(pwhash.salt, password) = pwhash.digest

\* ---------------------------------------------------------------- User
\* User.__init__: the fourth argument is stored as given.
UserInit(first_name, last_name, email, password_hash) ==
    [first_name |-> first_name, last_name |-> last_name,
     email |-> email, password_hash |-> password_hash]

\* The password setter: only the hash of the password is kept.
\* (Variant: the password kept as given, unhashed.)
password_setter_plain(self, password, salt) ==
    [self EXCEPT !.password_hash = [salt |-> salt, digest |-> password]]

password_setter(self, password, salt) ==
    [self EXCEPT !.password_hash = generate_password_hash(password, salt)]

\* User.verify_password: what the call returns, or that it raised.
\* (Variant: a mismatch raised instead of returned.)
verify_password_raises(self, password) ==
    IF check_password_hash(self.password_hash, password)
    THEN [raised |-> FALSE, value |-> TRUE]
    ELSE [raised |-> TRUE, value |-> FALSE]

verify_password(self, password) ==
    [raised |-> FALSE, value |-> check_password_hash(self.password_hash, password)]

\* ------------------------------------------------- unique constraints
\* unique=True: the index refuses a row whose value another row has.
\* (Variant: the column without unique=True.)
EmailTaken_unindexed(email, except) == FALSE

EmailTaken(email, except) ==
    \E i \in DOMAIN user \ {except} : user[i].email = email

\* (Variant: uniqueness looked at on INSERT only, not on UPDATE.)
DeckNameTaken_insert_only(name, except) ==
    except = NULL /\ \E i \in DOMAIN deck : deck[i].name = name

DeckNameTaken(name, except) ==
    \E i \in DOMAIN deck \ {except} : deck[i].name = name

ClassNameTaken(name, except) ==
    \E i \in DOMAIN class \ {except} : class[i].name = name

\* ------------------------------------------------------ table helpers
Insert(table, id, row) ==
    [i \in DOMAIN table \cup {id} |-> IF i = id THEN row ELSE table[i]]

Remove(table, id) ==
    [i \in DOMAIN table \ {id} |-> table[i]]

\* A bag without any copy of row.
Purge(bag, row) ==
    [r \in DOMAIN bag \ {row} |-> bag[r]]

Rows(bag, row) == CopiesIn(row, bag)


\* --------------------------------------------------- Deck, Card, Class
\* Deck.__init__: self.name = name; self.owner = owner.
DeckInit(name, owner) ==
    [name |-> name, owner_id |-> owner]

\* Card.__init__: front, back, then self.deck = deck; self.owner = owner.
\* (Variant: the owner taken from the deck.)
CardInit_deck_owner(front, back, d, owner) ==
    [front |-> front, back |-> back, deck_id |-> d,
     owner_id |-> IF d \in DOMAIN deck THEN deck[d].owner_id ELSE NULL]

CardInit(front, back, d, owner) ==
    [front |-> front, back |-> back, deck_id |-> d, owner_id |-> owner]

\* Class.__init__
ClassInit(name, password_hash, owner) ==
    [name |-> name, password_hash |-> password_hash, owner_id |-> owner]

\* ------------------------------------------------------- relationships
\* User.decks, User.cards, User.classes: the rows whose owner_id is the user.
User_decks(u) == {d \in DOMAIN deck : deck[d].owner_id = u}
User_cards(u) == {c \in DOMAIN card : card[c].owner_id = u}
User_classes(u) == {k \in DOMAIN class : class[k].owner_id = u}

\* Deck.cards: the rows whose deck_id is the deck.
Deck_cards(d) == {c \in DOMAIN card : card[c].deck_id = d}

\* The association table each many-to-many relationship is stored in.
\* (Variant: both relationships on the same secondary table.)
user_classes_secondary_swapped == "CardClasses"

user_classes_secondary == "UserClasses"

card_classes_secondary == "CardClasses"

\* User.user_classes: k in u.user_classes, the presence test of membership.
User_user_classes(u) ==
    {k \in DOMAIN class : BagIn(<<u, k>>, assoc[user_classes_secondary])}

\* Class.card_classes: c in k.card_classes.
Class_card_classes(k) ==
    {c \in DOMAIN card : BagIn(<<c, k>>, assoc[card_classes_secondary])}

\* The association tables declare two plain columns: no primary key and no
\* unique constraint over the pair.
\* (Variant: the pair declared unique.)
association_unique_declared(table) == TRUE

association_unique(table) == FALSE

\* Deck.list_cards
\* (Variant: the query filtered by the receiver as well.)
list_cards_of_deck(self, an_owner_id) ==
    {c \in DOMAIN card : card[c].owner_id = an_owner_id /\ card[c].deck_id = self}

list_cards(self, an_owner_id) ==
    {c \in DOMAIN card : card[c].owner_id = an_owner_id}

\* ------------------------------------------------ delete (unit of work)
\* A one-to-many relationship declared without a delete cascade: when the
\* parent is deleted its children stay, and the unit of work sets their
\* foreign key to NULL before it deletes the parent.
\* (Variant, passive_deletes: the children are left untouched.)
Orphan_passive(table, fk, id) == table

Orphan(table, fk, id) ==
    [i \in DOMAIN table |->
        IF table[i][fk] = id THEN [table[i] EXCEPT ![fk] = NULL] ELSE table[i]]

\* A many-to-many relationship: the unit of work deletes the rows of the
\* secondary table that belong to the deleted object (side 1 or 2 of the row).
Unlink(bag, side, id) ==
    [r \in {x \in DOMAIN bag : x[side] # id} |-> bag[r]]

\* Such a DELETE is expected to match one row for each object of the
\* collection; a pair stored more than once matches more.
Stale(bag, side, id) == \E r \in DOMAIN bag : r[side] = id /\ bag[r] > 1

\* ---------------------------------------------------------------- Init
Init ==
    /\ user = <<>>
    /\ deck = <<>>
    /\ card = <<>>
    /\ class = <<>>
    /\ assoc = [UserClasses |-> EmptyBag, CardClasses |-> EmptyBag]
    /\ autoinc = [user |-> 1, deck |-> 1, card |-> 1, class |-> 1]
    /\ last = [op |-> "init"]

\* ------------------------------------------------------------- actions
\* The hash a caller passes to a constructor is one generate_password_hash made.
\* db.session.add(User(first_name, last_name, email, password_hash)); commit
CreateUser(email, password, salt) ==
    /\ autoinc.user <= MaxUsers
    /\ LET id == autoinc.user
           new == UserInit(1, 1, email, generate_password_hash(password, salt))
       IN IF EmailTaken(email, NULL)
          THEN /\ last' = [op |-> "create_user", value |-> email,
                           result |-> "IntegrityError"]
               /\ UNCHANGED <<user, autoinc>>
          ELSE /\ user' = Insert(user, id, new)
               /\ autoinc' = [autoinc EXCEPT !.user = id + 1]
               /\ last' = [op |-> "create_user", value |-> email, id |-> id,
                           result |-> "ok"]
    /\ UNCHANGED <<deck, card, class, assoc>>

\* db.session.add(Deck(name, owner)); commit
CreateDeck(name, owner) ==
    /\ autoinc.deck <= MaxDecks
    /\ owner \in DOMAIN user
    /\ LET id == autoinc.deck
       IN IF DeckNameTaken(name, NULL)
          THEN /\ last' = [op |-> "create_deck", value |-> name,
                           result |-> "IntegrityError"]
               /\ UNCHANGED <<deck, autoinc>>
          ELSE /\ deck' = Insert(deck, id, DeckInit(name, owner))
               /\ autoinc' = [autoinc EXCEPT !.deck = id + 1]
               /\ last' = [op |-> "create_deck", value |-> name, id |-> id,
                           result |-> "ok"]
    /\ UNCHANGED <<user, card, class, assoc>>

\* db.session.add(Card(front, back, deck, owner)); commit
CreateCard(d, owner) ==
    /\ autoinc.card <= MaxCards
    /\ d \in DOMAIN deck
    /\ owner \in DOMAIN user
    /\ LET id == autoinc.card
       IN /\ card' = Insert(card, id, CardInit(1, 1, d, owner))
          /\ autoinc' = [autoinc EXCEPT !.card = id + 1]
          /\ last' = [op |-> "create_card", id |-> id, deck |-> d,
                      owner |-> owner, result |-> "ok"]
    /\ UNCHANGED <<user, deck, class, assoc>>

\* db.session.add(Class(name, password_hash, owner)); commit
CreateClass(name, owner) ==
    /\ autoinc.class <= MaxClasses
    /\ owner \in DOMAIN user
    /\ LET id == autoinc.class
           new == ClassInit(name, generate_password_hash(1, 1), owner)
       IN IF ClassNameTaken(name, NULL)
          THEN /\ last' = [op |-> "create_class", value |-> name,
                           result |-> "IntegrityError"]
               /\ UNCHANGED <<class, autoinc>>
          ELSE /\ class' = Insert(class, id, new)
               /\ autoinc' = [autoinc EXCEPT !.class = id + 1]
               /\ last' = [op |-> "create_class", value |-> name, id |-> id,
                           result |-> "ok"]
    /\ UNCHANGED <<user, deck, card, assoc>>

\* user.password = password; commit
SetPassword(u, password, salt) ==
    /\ u \in DOMAIN user
    /\ user' = [user EXCEPT ![u] = password_setter(user[u], password, salt)]
    /\ last' = [op |-> "password", id |-> u, password |-> password]
    /\ UNCHANGED <<deck, card, class, assoc, autoinc>>

\* user.verify_password(password)
VerifyPassword(u, password) ==
    /\ u \in DOMAIN user
    /\ last' = [op |-> "verify_password", id |-> u, password |-> password,
                result |-> verify_password(user[u], password)]
    /\ UNCHANGED <<user, deck, card, class, assoc, autoinc>>

\* user.email = email; commit
SetEmail(u, email) ==
    /\ u \in DOMAIN user
    /\ IF EmailTaken(email, u)
       THEN /\ last' = [op |-> "set_email", id |-> u, value |-> email,
                        result |-> "IntegrityError"]
            /\ UNCHANGED user
       ELSE /\ user' = [user EXCEPT ![u].email = email]
            /\ last' = [op |-> "set_email", id |-> u, value |-> email,
                        result |-> "ok"]
    /\ UNCHANGED <<deck, card, class, assoc, autoinc>>

\* deck.name = name; commit
RenameDeck(d, name) ==
    /\ d \in DOMAIN deck
    /\ IF DeckNameTaken(name, d)
       THEN /\ last' = [op |-> "rename_deck", id |-> d, value |-> name,
                        from |-> deck[d].name, result |-> "IntegrityError"]
            /\ UNCHANGED deck
       ELSE /\ deck' = [deck EXCEPT ![d].name = name]
            /\ last' = [op |-> "rename_deck", id |-> d, value |-> name,
                        from |-> deck[d].name, result |-> "ok"]
    /\ UNCHANGED <<user, card, class, assoc, autoinc>>

\* class.name = name; commit
RenameClass(k, name) ==
    /\ k \in DOMAIN class
    /\ IF ClassNameTaken(name, k)
       THEN /\ last' = [op |-> "rename_class", id |-> k, value |-> name,
                        from |-> class[k].name, result |-> "IntegrityError"]
            /\ UNCHANGED class
       ELSE /\ class' = [class EXCEPT ![k].name = name]
            /\ last' = [op |-> "rename_class", id |-> k, value |-> name,
                        from |-> class[k].name, result |-> "ok"]
    /\ UNCHANGED <<user, deck, card, assoc, autoinc>>

\* deck.owner = owner; commit
SetDeckOwner(d, owner) ==
    /\ d \in DOMAIN deck
    /\ owner \in DOMAIN user
    /\ deck' = [deck EXCEPT ![d].owner_id = owner]
    /\ last' = [op |-> "set_deck_owner", id |-> d, value |-> owner]
    /\ UNCHANGED <<user, card, class, assoc, autoinc>>

\* card.owner = owner; commit
SetCardOwner(c, owner) ==
    /\ c \in DOMAIN card
    /\ owner \in DOMAIN user
    /\ card' = [card EXCEPT ![c].owner_id = owner]
    /\ last' = [op |-> "set_card_owner", id |-> c, value |-> owner]
    /\ UNCHANGED <<user, deck, class, assoc, autoinc>>

\* card.deck = deck; commit
SetCardDeck(c, d) ==
    /\ c \in DOMAIN card
    /\ d \in DOMAIN deck
    /\ card' = [card EXCEPT ![c].deck_id = d]
    /\ last' = [op |-> "set_card_deck", id |-> c, value |-> d]
    /\ UNCHANGED <<user, deck, class, assoc, autoinc>>

\* deck.list_cards(an_owner_id)
ListCards(d, an_owner_id) ==
    /\ d \in DOMAIN deck
    /\ last' = [op |-> "list_cards", id |-> d, owner |-> an_owner_id,
                result |-> list_cards(d, an_owner_id)]
    /\ UNCHANGED <<user, deck, card, class, assoc, autoinc>>

\* An INSERT into an association table: what the flush of
\* collection.append(x) writes for each occurrence of x the collection did
\* not hold when it was loaded, and what table.insert() writes.
Link(table, row, op) ==
    /\ Rows(assoc[table], row) < MaxRows
    /\ IF association_unique(table) /\ BagIn(row, assoc[table])
       THEN /\ last' = [op |-> op, row |-> row, result |-> "IntegrityError"]
            /\ UNCHANGED assoc
       ELSE /\ assoc' = [assoc EXCEPT ![table] = @ (+) SetToBag({row})]
            /\ last' = [op |-> op, row |-> row, result |-> "ok"]
    /\ UNCHANGED <<user, deck, card, class, autoinc>>

\* The DELETE the flush of collection.remove(x) emits: WHERE the two columns
\* are those of the row.  The unit of work expects it to match one row; when
\* the pair is stored more than once the driver's row count decides between
\* StaleDataError (and a rollback) and every row of the pair being deleted.
Unlink1(table, row, op) ==
    /\ BagIn(row, assoc[table])
    /\ \/ /\ assoc' = [assoc EXCEPT ![table] = Purge(@, row)]
          /\ last' = [op |-> op, row |-> row, result |-> "ok"]
       \/ /\ Rows(assoc[table], row) > 1
          /\ last' = [op |-> op, row |-> row, result |-> "StaleDataError"]
          /\ UNCHANGED assoc
    /\ UNCHANGED <<user, deck, card, class, autoinc>>

\* user.user_classes.append(class); commit
AddMember(u, k) ==
    /\ u \in DOMAIN user
    /\ k \in DOMAIN class
    /\ Link(user_classes_secondary, <<u, k>>, "add_member")

\* user.user_classes.remove(class); commit
RemoveMember(u, k) ==
    /\ u \in DOMAIN user
    /\ k \in DOMAIN class
    /\ Unlink1(user_classes_secondary, <<u, k>>, "remove_member")

\* class.card_classes.append(card); commit
ShareCard(c, k) ==
    /\ c \in DOMAIN card
    /\ k \in DOMAIN class
    /\ Link(card_classes_secondary, <<c, k>>, "share_card")

\* class.card_classes.remove(card); commit
UnshareCard(c, k) ==
    /\ c \in DOMAIN card
    /\ k \in DOMAIN class
    /\ Unlink1(card_classes_secondary, <<c, k>>, "unshare_card")

\* The unit of work of a delete met a pair stored more than once, raised
\* StaleDataError and was rolled back.
DeleteStale(op, id) ==
    /\ last' = [op |-> op, id |-> id, result |-> "StaleDataError"]
    /\ UNCHANGED <<user, deck, card, class, assoc, autoinc>>

\* db.session.delete(user); commit
DeleteUser(u) ==
    /\ u \in DOMAIN user
    /\ \/ /\ user' = Remove(user, u)
          /\ deck' = Orphan(deck, "owner_id", u)
          /\ card' = Orphan(card, "owner_id", u)
          /\ class' = Orphan(class, "owner_id", u)
          /\ assoc' = [assoc EXCEPT ![user_classes_secondary] = Unlink(@, 1, u)]
          /\ last' = [op |-> "delete_user", id |-> u, result |-> "ok"]
          /\ UNCHANGED autoinc
       \/ /\ Stale(assoc[user_classes_secondary], 1, u)
          /\ DeleteStale("delete_user", u)

\* db.session.delete(deck); commit
DeleteDeck(d) ==
    /\ d \in DOMAIN deck
    /\ deck' = Remove(deck, d)
    /\ card' = Orphan(card, "deck_id", d)
    /\ last' = [op |-> "delete_deck", id |-> d, result |-> "ok"]
    /\ UNCHANGED <<user, class, assoc, autoinc>>

\* db.session.delete(card); commit
DeleteCard(c) ==
    /\ c \in DOMAIN card
    /\ \/ /\ card' = Remove(card, c)
          /\ assoc' = [assoc EXCEPT ![card_classes_secondary] = Unlink(@, 1, c)]
          /\ last' = [op |-> "delete_card", id |-> c, result |-> "ok"]
          /\ UNCHANGED <<user, deck, class, autoinc>>
       \/ /\ Stale(assoc[card_classes_secondary], 1, c)
          /\ DeleteStale("delete_card", c)

\* db.session.delete(class); commit
DeleteClass(k) ==
    /\ k \in DOMAIN class
    /\ \/ /\ class' = Remove(class, k)
          /\ assoc' = [t \in DOMAIN assoc |-> Unlink(assoc[t], 2, k)]
          /\ last' = [op |-> "delete_class", id |-> k, result |-> "ok"]
          /\ UNCHANGED <<user, deck, card, autoinc>>
       \/ /\ \E t \in DOMAIN assoc : Stale(assoc[t], 2, k)
          /\ DeleteStale("delete_class", k)

\* ------------------------------------------------------- specification
Users == 1..MaxUsers
Decks == 1..MaxDecks
Cards == 1..MaxCards
Classes == 1..MaxClasses

\* Every operation with every input.
Next ==
    \/ \E e \in Emails, p \in Passwords, s \in Salts : CreateUser(e, p, s)
    \/ \E n \in Names, u \in Users : CreateDeck(n, u)
    \/ \E d \in Decks, u \in Users : CreateCard(d, u)
    \/ \E n \in Names, u \in Users : CreateClass(n, u)
    \/ \E u \in Users, p \in Passwords, s \in Salts : SetPassword(u, p, s)
    \/ \E u \in Users, p \in Passwords : VerifyPassword(u, p)
    \/ \E u \in Users, e \in Emails : SetEmail(u, e)
    \/ \E d \in Decks, n \in Names : RenameDeck(d, n)
    \/ \E k \in Classes, n \in Names : RenameClass(k, n)
    \/ \E d \in Decks, u \in Users : SetDeckOwner(d, u)
    \/ \E c \in Cards, u \in Users : SetCardOwner(c, u)
    \/ \E c \in Cards, d \in Decks : SetCardDeck(c, d)
    \/ \E d \in Decks, o \in {NULL} \cup Users : ListCards(d, o)
    \/ \E u \in Users, k \in Classes : AddMember(u, k)
    \/ \E u \in Users, k \in Classes : RemoveMember(u, k)
    \/ \E c \in Cards, k \in Classes : ShareCard(c, k)
    \/ \E c \in Cards, k \in Classes : UnshareCard(c, k)
    \/ \E u \in Users : DeleteUser(u)
    \/ \E d \in Decks : DeleteDeck(d)
    \/ \E c \in Cards : DeleteCard(c)
    \/ \E k \in Classes : DeleteClass(k)

Spec == Init /\ [][Next]_vars

\* Accounts: users, their e-mail addresses and their passwords.
NextAccounts ==
    \/ \E e \in Emails, p \in Passwords, s \in Salts : CreateUser(e, p, s)
    \/ \E u \in Users, p \in Passwords, s \in Salts : SetPassword(u, p, s)
    \/ \E u \in Users, p \in Passwords : VerifyPassword(u, p)
    \/ \E u \in Users, e \in Emails : SetEmail(u, e)
    \/ \E u \in Users : DeleteUser(u)

SpecAccounts == Init /\ [][NextAccounts]_vars

\* Names: the three unique columns, written by create and by assignment.
NextNames ==
    \/ \E e \in Emails : CreateUser(e, 1, 1)
    \/ \E n \in Names, u \in Users : CreateDeck(n, u)
    \/ \E n \in Names, u \in Users : CreateClass(n, u)
    \/ \E u \in Users, e \in Emails : SetEmail(u, e)
    \/ \E d \in Decks, n \in Names : RenameDeck(d, n)
    \/ \E k \in Classes, n \in Names : RenameClass(k, n)
    \/ \E u \in Users : DeleteUser(u)
    \/ \E d \in Decks : DeleteDeck(d)
    \/ \E k \in Classes : DeleteClass(k)

SpecNames == Init /\ [][NextNames]_vars

\* Catalog: users, decks and the cards in them.
NextCatalog ==
    \/ \E e \in Emails : CreateUser(e, 1, 1)
    \/ \E n \in Names, u \in Users : CreateDeck(n, u)
    \/ \E d \in Decks, u \in Users : CreateCard(d, u)
    \/ \E d \in Decks, u \in Users : SetDeckOwner(d, u)
    \/ \E c \in Cards, u \in Users : SetCardOwner(c, u)
    \/ \E c \in Cards, d \in Decks : SetCardDeck(c, d)
    \/ \E d \in Decks, o \in {NULL} \cup Users : ListCards(d, o)
    \/ \E u \in Users : DeleteUser(u)
    \/ \E d \in Decks : DeleteDeck(d)
    \/ \E c \in Cards : DeleteCard(c)

SpecCatalog == Init /\ [][NextCatalog]_vars

\* Sharing: all six tables, rows created, linked and deleted.
NextSharing ==
    \/ \E e \in Emails : CreateUser(e, 1, 1)
    \/ \E u \in Users : CreateDeck(1, u)
    \/ \E d \in Decks, u \in Users : CreateCard(d, u)
    \/ \E u \in Users : CreateClass(1, u)
    \/ \E u \in Users, k \in Classes : AddMember(u, k)
    \/ \E u \in Users, k \in Classes : RemoveMember(u, k)
    \/ \E c \in Cards, k \in Classes : ShareCard(c, k)
    \/ \E c \in Cards, k \in Classes : UnshareCard(c, k)
    \/ \E u \in Users : DeleteUser(u)
    \/ \E d \in Decks : DeleteDeck(d)
    \/ \E c \in Cards : DeleteCard(c)
    \/ \E k \in Classes : DeleteClass(k)

SpecSharing == Init /\ [][NextSharing]_vars

\* ---------------------------------------------------------------- claims
\* C1: after `user.password = p`, verify_password(q) returns true for q = p
\* and false for every other q.
PasswordRoundTrip ==
    last.op = "password" =>
        \A q \in Passwords :
            LET r == verify_password(user[last.id], q)
            IN ~r.raised /\ (r.value <=> q = last.password)

PasswordRoundTripWitness ==
    /\ last.op = "password"
    /\ verify_password(user[last.id], last.password).value
    /\ \E q \in Passwords : ~verify_password(user[last.id], q).value

\* C2: committing a User whose email a stored User has, a Deck whose name a
\* stored Deck has or a Class whose name a stored Class has raises the
\* uniqueness error, and the table is left as it was.
DuplicateCreateFails ==
    [][/\ (last'.op = "create_user"
            /\ \E i \in DOMAIN user : user[i].email = last'.value)
           => (last'.result = "IntegrityError" /\ user' = user)
       /\ (last'.op = "create_deck"
            /\ \E i \in DOMAIN deck : deck[i].name = last'.value)
           => (last'.result = "IntegrityError" /\ deck' = deck)
       /\ (last'.op = "create_class"
            /\ \E i \in DOMAIN class : class[i].name = last'.value)
           => (last'.result = "IntegrityError" /\ class' = class)]_vars

DuplicateCreateFailsWitness ==
    /\ last.op = "create_user"
    /\ last.result = "IntegrityError"
    /\ \E i \in DOMAIN user : user[i].email = last.value
    /\ \E i, j \in DOMAIN deck : i # j

\* C3: a Card constructed with Deck d and owner u is in d.cards and in
\* u.cards, its deck is d and its owner is u, also when u does not own d.
CardInBothCollections ==
    last.op = "create_card" =>
        /\ last.id \in Deck_cards(last.deck)
        /\ last.id \in User_cards(last.owner)
        /\ card[last.id].deck_id = last.deck
        /\ card[last.id].owner_id = last.owner

CardInBothCollectionsWitness ==
    /\ last.op = "create_card"
    /\ deck[last.deck].owner_id # last.owner
    /\ last.id \in User_cards(last.owner)

\* C4: d.list_cards(o) returns exactly the stored Cards whose owner_id is o,
\* whatever their Deck and whatever d is, and changes nothing stored.
ListCardsIgnoresDeck ==
    [][last'.op = "list_cards" =>
        /\ last'.result = {c \in DOMAIN card : card[c].owner_id = last'.owner}
        /\ \A d \in DOMAIN deck : list_cards(d, last'.owner) = last'.result
        /\ store' = store
        /\ autoinc' = autoinc]_vars

ListCardsIgnoresDeckWitness ==
    /\ last.op = "list_cards"
    /\ \E c \in last.result : c \notin Deck_cards(last.id)
    /\ \E c \in DOMAIN card : c \notin last.result

\* C5: adding or removing a member of a Class leaves the shared Cards of
\* every Class as they were, and adding or removing a shared Card leaves
\* the members of every Class as they were.
MembershipAndSharingIndependent ==
    [][/\ last'.op \in {"add_member", "remove_member"}
           => assoc'.CardClasses = assoc.CardClasses
       /\ last'.op \in {"share_card", "unshare_card"}
           => assoc'.UserClasses = assoc.UserClasses]_vars

MembershipAndSharingIndependentWitness ==
    /\ last.op = "remove_member"
    /\ last.result = "ok"
    /\ assoc.CardClasses # EmptyBag
    /\ ~BagIn(last.row, assoc.UserClasses)

\* C6: every stored Deck, Card and Class has an owner that is a stored User,
\* and every stored Card has a deck that is a stored Deck.
OwnersAndDecksExist ==
    /\ \A d \in DOMAIN deck : deck[d].owner_id \in DOMAIN user
    /\ \A c \in DOMAIN card : card[c].owner_id \in DOMAIN user
    /\ \A k \in DOMAIN class : class[k].owner_id \in DOMAIN user
    /\ \A c \in DOMAIN card : card[c].deck_id \in DOMAIN deck

\* C7: no two stored Decks have the same name and no two stored Classes
\* have the same name, also after a Deck or Class is renamed.
NamesUnique ==
    /\ \A i, j \in DOMAIN deck : i # j => deck[i].name # deck[j].name
    /\ \A i, j \in DOMAIN class : i # j => class[i].name # class[j].name

NamesUniqueWitness ==
    /\ last.op = "rename_deck"
    /\ last.result = "ok"
    /\ last.from # last.value
    /\ \E j \in DOMAIN deck : j # last.id
    /\ \E i, j \in DOMAIN class : i # j

\* C8: verify_password returns a boolean, false when the candidate does not
\* match the stored hash, raises nothing and changes nothing stored.
VerifyReturnsBoolean ==
    [][last'.op = "verify_password" =>
        /\ ~last'.result.raised
        /\ (~check_password_hash(user[last'.id].password_hash, last'.password)
              => last'.result.value = FALSE)
        /\ store' = store
        /\ autoinc' = autoinc]_vars

VerifyReturnsBooleanWitness ==
    /\ last.op = "verify_password"
    /\ ~last.result.raised
    /\ last.result.value = FALSE

\* C9, as the spec states it: a delete of a User, Deck or Class removes only
\* that row, and every other row, association rows included, is as before.
DeleteLeavesDependentsAsTheyWere ==
    [][/\ (last'.op = "delete_user" /\ last'.result = "ok")
           => /\ user' = Remove(user, last'.id)
              /\ <<deck', card', class', assoc'>> = <<deck, card, class, assoc>>
       /\ (last'.op = "delete_deck" /\ last'.result = "ok")
           => /\ deck' = Remove(deck, last'.id)
              /\ <<user', card', class', assoc'>> = <<user, card, class, assoc>>
       /\ (last'.op = "delete_class" /\ last'.result = "ok")
           => /\ class' = Remove(class, last'.id)
              /\ <<user', deck', card', assoc'>> = <<user, deck, card, assoc>>]_vars

\* C9, amended: a delete of a User, Deck or Class that is committed deletes
\* no Deck, Card or Class that depends on it; each dependent row stays with
\* its foreign key to the deleted row set to NULL, and the association rows
\* of the deleted row are deleted with it.  A delete that is not committed
\* (StaleDataError) changes nothing.
Nullified(old, new, fk, id) ==
    /\ DOMAIN new = DOMAIN old
    /\ \A i \in DOMAIN old :
          /\ new[i][fk] = (IF old[i][fk] = id THEN NULL ELSE old[i][fk])
          /\ \A f \in DOMAIN old[i] \ {fk} : new[i][f] = old[i][f]

Unlinked(old, new, side, id) ==
    \A r \in DOMAIN old \cup DOMAIN new :
        Rows(new, r) = (IF r[side] = id THEN 0 ELSE Rows(old, r))

DeleteNullifiesDependents ==
    [][/\ (last'.op = "delete_user" /\ last'.result = "ok")
           => /\ user' = Remove(user, last'.id)
              /\ Nullified(deck, deck', "owner_id", last'.id)
              /\ Nullified(card, card', "owner_id", last'.id)
              /\ Nullified(class, class', "owner_id", last'.id)
              /\ Unlinked(assoc.UserClasses, assoc'.UserClasses, 1, last'.id)
              /\ assoc'.CardClasses = assoc.CardClasses
       /\ (last'.op = "delete_deck" /\ last'.result = "ok")
           => /\ deck' = Remove(deck, last'.id)
              /\ Nullified(card, card', "deck_id", last'.id)
              /\ <<user', class', assoc'>> = <<user, class, assoc>>
       /\ (last'.op = "delete_class" /\ last'.result = "ok")
           => /\ class' = Remove(class, last'.id)
              /\ <<user', deck', card'>> = <<user, deck, card>>
              /\ Unlinked(assoc.UserClasses, assoc'.UserClasses, 2, last'.id)
              /\ Unlinked(assoc.CardClasses, assoc'.CardClasses, 2, last'.id)
       /\ (last'.op \in {"delete_user", "delete_deck", "delete_class"}
            /\ last'.result # "ok")
           => store' = store]_vars

DeleteNullifiesDependentsWitness ==
    /\ last.op = "delete_user"
    /\ last.result = "ok"
    /\ \E d \in DOMAIN deck : deck[d].owner_id = NULL
    /\ \E c \in DOMAIN card : card[c].owner_id = NULL /\ card[c].deck_id # NULL
    /\ \E k \in DOMAIN class : class[k].owner_id = NULL

====
